---------------------------- MODULE Spec2Model ----------------------------
(***************************************************************************)
(* Plan import and plan performance of the bank management API.            *)
(*                                                                         *)
(*   src/main.py               upload_plans, get_all_performance,          *)
(*                             get_year_performance                        *)
(*   src/database/requests.py  the store queries, bulk_insert_plans,       *)
(*                             incr_month                                  *)
(*   src/database/models.py    Plan, Credit, Payment, Dictionary           *)
(*                                                                         *)
(* Money is counted in cents (DECIMAL(10, 2)); a spreadsheet sum is given  *)
(* in thousandths so that quantize(Decimal('0.00')) has something to       *)
(* round.  A date is a record [year, month, day].  A category name is a    *)
(* sequence of chunks, " " being white space, so that str.strip() has      *)
(* something to remove.  "vydacha" and "zbir" stand for the two names the  *)
(* code compares against (issuance and collection).                        *)
(***************************************************************************)
EXTENDS Integers, Sequences, FiniteSets

\* ------------------------------------------------------------------ bounds
MaxRows == 2        \* rows of one uploaded sheet (sequential imports)
MaxCalls == 2       \* upload_plans requests served one after the other
MaxConcRows == 1    \* rows of one uploaded sheet (overlapping imports)
NumYears == 5       \* years the month arithmetic is applied to
MaxPlans == 2       \* Plan records of the store the reports are run on

Procs == {1, 2}     \* request handlers that may be in flight

\* ------------------------------------------------------------------- dates
Date(y, m, d) == [year |-> y, month |-> m, day |-> d]

DateLT(a, b) ==
    \/ a.year < b.year
    \/ a.year = b.year /\ a.month < b.month
    \/ a.year = b.year /\ a.month = b.month /\ a.day < b.day

DateLE(a, b) == a = b \/ DateLT(a, b)

incr_month_no_rollover(plan_date) ==
    Date(plan_date.year, (plan_date.month % 12) + 1, 1)

incr_month(plan_date) ==
    IF plan_date.month = 12
    THEN Date(plan_date.year + 1, 1, 1)
    ELSE Date(plan_date.year, plan_date.month + 1, 1)

\* ------------------------------------------------------- decimal arithmetic
\* n / d rounded to an integer, ties to even (decimal.ROUND_HALF_EVEN), d > 0.
RoundHalfEvenPos(n, d) ==
    LET q == n \div d
        r == n % d
    IN  IF 2 * r < d THEN q
        ELSE IF 2 * r > d THEN q + 1
        ELSE IF q % 2 = 0 THEN q ELSE q + 1

RoundHalfEven(n, d) ==
    IF d > 0 THEN RoundHalfEvenPos(n, d) ELSE RoundHalfEvenPos(-n, -d)

\* Decimal(str(x)).quantize(Decimal('0.00')): thousandths to cents.
quantize(mills) == RoundHalfEven(mills, 10)


\* -------------------------------------------------------------- dictionary
\* The dictionaries table: read-only reference data.  Payment types and plan
\* categories share it.
Dictionary ==
    { [id |-> 1, name |-> <<"body">>],
      [id |-> 2, name |-> <<"percent">>],
      [id |-> 3, name |-> <<"vydacha">>],
      [id |-> 4, name |-> <<"zbir">>] }

\* select(Dictionary.id).where(Dictionary.name == category_name); 0 stands
\* for None (the caller tests "not category_id", which both fail alike).
get_category_id_by_name(category_name) ==
    IF \E d \in Dictionary : d.name = category_name
    THEN (CHOOSE d \in Dictionary : d.name = category_name).id
    ELSE 0

\* select(Dictionary.name).where(Dictionary.id == category_id)
get_category_name_by_id(category_id) ==
    IF \E d \in Dictionary : d.id = category_id
    THEN (CHOOSE d \in Dictionary : d.id = category_id).name
    ELSE <<>>

\* str.strip(): white-space chunks removed at both ends.
RECURSIVE lstrip(_)
lstrip(s) == IF s # <<>> /\ Head(s) = " " THEN lstrip(Tail(s)) ELSE s

RECURSIVE rstrip(_)
rstrip(s) ==
    IF s # <<>> /\ s[Len(s)] = " " THEN rstrip(SubSeq(s, 1, Len(s) - 1)) ELSE s

strip(s) == rstrip(lstrip(s))

\* ---------------------------------------------------------- uploaded rows
\* A cell of the period column: a datetime (a date and a time of day), a
\* date, or text.
IsDatetime(v) == DOMAIN v = {"year", "month", "day", "hour"}
IsDate(v) == DOMAIN v = {"year", "month", "day"}

\* datetime.date(): the time of day is dropped.
date_of(v) == Date(v.year, v.month, v.day)

NaN == [kind |-> "nan", mills |-> 0]
Text == [kind |-> "text", mills |-> 0]
Num(m) == [kind |-> "num", mills |-> m]

Row(p, s, c) == [period |-> p, sum |-> s, category_name |-> c]

Mar1 == Date(2024, 3, 1)

Rows ==
    { Row([year |-> 2024, month |-> 3, day |-> 1, hour |-> 9], Num(2015),
          <<" ", "zbir", " ">>),
      Row(Mar1, Num(0), <<"vydacha">>),
      Row(Mar1, Num(-1005), <<"zbir">>),
      Row(Mar1, NaN, <<"zbir">>),
      Row([text |-> "March"], Num(0), <<"zbir">>),
      Row(Date(2024, 3, 15), NaN, <<"x">>),
      Row(Mar1, Text, <<"x">>),
      Row(Mar1, Num(1000), <<"x">>) }

SeqsUpTo(S, n) == UNION { [1..k -> S] : k \in 0..n }

\* ------------------------------------------------------------------- state
VARIABLES
    plans,            \* the plans table: committed Plan records, in id order
    credits,          \* the credits table
    payments,         \* the payments table
    pc,               \* pc[p]: where handler p stands
    rows,             \* rows[p]: the data frame read from the upload
    index,            \* index[p]: 0-based index of the next row
    errors,           \* errors[p]: the error list
    plans_to_insert,  \* plans_to_insert[p]: the validated rows
    txn,              \* txn[p]: rows the session has flushed but not committed
    response,         \* response[p]: what the handler answered
    before,           \* before[p]: the plans table when the request started
    calls,            \* requests started so far
    plan_date,        \* argument of incr_month
    next_month,       \* result of incr_month
    report            \* answer of the last performance request

vars == << plans, credits, payments, pc, rows, index, errors, plans_to_insert,
           txn, response, before, calls, plan_date, next_month, report >>

importVars == << pc, rows, index, errors, plans_to_insert, txn, response,
                 before, calls >>

NoResponse == [status |-> 0, kind |-> "none", errors |-> <<>>, count |-> 0]
NoReport ==
    [op |-> "none", arg |-> <<>>, status |-> 0, kind |-> "none", body |-> <<>>]
NoDate == Date(0, 0, 0)

\* -------------------------------------------------------- plan validation
Plan(period, sum, category_id) ==
    [period |-> period, sum |-> sum, category_id |-> category_id]

\* select(Plan).where(period == period_date, category_id == category_id)
\* .first(): TRUE when a committed Plan matches.
get_plan_by_date_and_category_none(table, period_date, category_id) == FALSE

get_plan_by_date_and_category(table, period_date, category_id) ==
    \E k \in 1..Len(table) :
        table[k].period = period_date /\ table[k].category_id = category_id

Error(i, kind) == [row |-> i + 1, kind |-> kind]

\* One pass of the loop body of upload_plans over row, whose data frame
\* index is i: the error appended, or the plan appended.
validate_row_sum_first(row, i, table) ==
    IF ~ (IsDatetime(row.period) \/ IsDate(row.period))
    THEN [error |-> Error(i, "date_format")]
    ELSE IF row.sum.kind = "nan"
    THEN [error |-> Error(i, "sum_empty")]
    ELSE IF date_of(row.period).day # 1
    THEN [error |-> Error(i, "not_first_day")]
    ELSE IF row.sum.kind = "text"
    THEN [error |-> Error(i, "sum_invalid")]
    ELSE IF get_category_id_by_name(strip(row.category_name)) = 0
    THEN [error |-> Error(i, "category_not_found")]
    ELSE IF get_plan_by_date_and_category(table, date_of(row.period),
                get_category_id_by_name(strip(row.category_name)))
    THEN [error |-> Error(i, "plan_exists")]
    ELSE [plan |-> Plan(date_of(row.period), quantize(row.sum.mills),
                        get_category_id_by_name(strip(row.category_name)))]

validate_row(row, i, table) ==
    IF ~ (IsDatetime(row.period) \/ IsDate(row.period))
    THEN [error |-> Error(i, "date_format")]
    ELSE LET period_date == date_of(row.period) IN
    IF period_date.day # 1
    THEN [error |-> Error(i, "not_first_day")]
    ELSE IF row.sum.kind = "nan"
    THEN [error |-> Error(i, "sum_empty")]
    ELSE IF row.sum.kind = "text"
    THEN [error |-> Error(i, "sum_invalid")]
    ELSE LET amount == quantize(row.sum.mills)
             category_name == strip(row.category_name)
             category_id == get_category_id_by_name(category_name) IN
    IF category_id = 0
    THEN [error |-> Error(i, "category_not_found")]
    ELSE IF get_plan_by_date_and_category(table, period_date, category_id)
    THEN [error |-> Error(i, "plan_exists")]
    ELSE [plan |-> Plan(period_date, amount, category_id)]

\* ------------------------------------------------------------ upload_plans
\* The request arrives.  A file that is no Excel file, a file read_excel
\* cannot read ("except Exception": 500), or a sheet without the three
\* columns, is answered at once; otherwise the loop starts.
upload_plans(p, file, maxRows) ==
    /\ pc[p] = "idle"
    /\ calls' = calls + 1
    /\ before' = [before EXCEPT ![p] = plans]
    /\ index' = [index EXCEPT ![p] = 0]
    /\ errors' = [errors EXCEPT ![p] = <<>>]
    /\ plans_to_insert' = [plans_to_insert EXCEPT ![p] = <<>>]
    /\ txn' = [txn EXCEPT ![p] = <<>>]
    /\ IF ~ file.excel
       THEN /\ rows' = [rows EXCEPT ![p] = <<>>]
            /\ pc' = [pc EXCEPT ![p] = "done"]
            /\ response' = [response EXCEPT ![p] =
                   [NoResponse EXCEPT !.status = 400, !.kind = "not_excel"]]
       ELSE IF ~ file.readable
       THEN /\ rows' = [rows EXCEPT ![p] = <<>>]
            /\ pc' = [pc EXCEPT ![p] = "done"]
            /\ response' = [response EXCEPT ![p] =
                   [NoResponse EXCEPT !.status = 500, !.kind = "processing_error"]]
       ELSE IF ~ file.columns
       THEN /\ rows' = [rows EXCEPT ![p] = <<>>]
            /\ pc' = [pc EXCEPT ![p] = "done"]
            /\ response' = [response EXCEPT ![p] =
                   [NoResponse EXCEPT !.status = 400, !.kind = "missing_columns"]]
       ELSE /\ file.rows \in SeqsUpTo(Rows, maxRows)
            /\ rows' = [rows EXCEPT ![p] = file.rows]
            /\ pc' = [pc EXCEPT ![p] = "validate"]
            /\ response' = [response EXCEPT ![p] = NoResponse]
    /\ UNCHANGED << plans, credits, payments, plan_date, next_month, report >>

Files(maxRows) ==
    { [excel |-> FALSE, readable |-> TRUE, columns |-> TRUE, rows |-> <<>>],
      [excel |-> TRUE, readable |-> FALSE, columns |-> TRUE, rows |-> <<>>],
      [excel |-> TRUE, readable |-> TRUE, columns |-> FALSE, rows |-> <<>>] }
    \cup { [excel |-> TRUE, readable |-> TRUE, columns |-> TRUE, rows |-> r] :
             r \in SeqsUpTo(Rows, maxRows) }

\* One iteration of "for index, row in df.iterrows()".
upload_plans_row(p) ==
    /\ pc[p] = "validate"
    /\ index[p] < Len(rows[p])
    /\ LET r == validate_row(rows[p][index[p] + 1], index[p], plans) IN
       IF "error" \in DOMAIN r
       THEN /\ errors' = [errors EXCEPT ![p] = Append(@, r.error)]
            /\ UNCHANGED plans_to_insert
       ELSE /\ plans_to_insert' = [plans_to_insert EXCEPT ![p] = Append(@, r.plan)]
            /\ UNCHANGED errors
    /\ index' = [index EXCEPT ![p] = @ + 1]
    /\ UNCHANGED << plans, credits, payments, pc, rows, txn, response, before,
                    calls, plan_date, next_month, report >>

\* "if errors: raise HTTPException(400, {"errors": errors})"
upload_plans_reject_partial(p) ==
    /\ pc[p] = "validate"
    /\ index[p] = Len(rows[p])
    /\ errors[p] # <<>>
    /\ plans' = plans \o plans_to_insert[p]
    /\ pc' = [pc EXCEPT ![p] = "done"]
    /\ response' = [response EXCEPT ![p] =
           [NoResponse EXCEPT !.status = 400, !.kind = "errors",
                              !.errors = errors[p]]]
    /\ UNCHANGED << credits, payments, rows, index, errors, plans_to_insert,
                    txn, before, calls, plan_date, next_month, report >>

upload_plans_reject(p) ==
    /\ pc[p] = "validate"
    /\ index[p] = Len(rows[p])
    /\ errors[p] # <<>>
    /\ pc' = [pc EXCEPT ![p] = "done"]
    /\ response' = [response EXCEPT ![p] =
           [NoResponse EXCEPT !.status = 400, !.kind = "errors",
                              !.errors = errors[p]]]
    /\ UNCHANGED << plans, credits, payments, rows, index, errors,
                    plans_to_insert, txn, before, calls, plan_date, next_month,
                    report >>

\* No error: bulk_insert_plans is entered and every plan is added to the
\* session (nothing is sent to the store yet).
bulk_insert_plans_add(p) ==
    /\ pc[p] = "validate"
    /\ index[p] = Len(rows[p])
    /\ errors[p] = <<>>
    /\ pc' = [pc EXCEPT ![p] = "commit"]
    /\ UNCHANGED << plans, credits, payments, rows, index, errors,
                    plans_to_insert, txn, response, before, calls, plan_date,
                    next_month, report >>

\* session.commit() flushes the added plans, one INSERT each, inside the
\* session's transaction.
bulk_insert_plans_flush(p) ==
    /\ pc[p] = "commit"
    /\ Len(txn[p]) < Len(plans_to_insert[p])
    /\ txn' = [txn EXCEPT ![p] = Append(@, plans_to_insert[p][Len(@) + 1])]
    /\ UNCHANGED << plans, credits, payments, pc, rows, index, errors,
                    plans_to_insert, response, before, calls, plan_date,
                    next_month, report >>

\* The transaction commits: its rows join the table, and upload_plans
\* answers 200 with len(plans_to_insert).
bulk_insert_plans_commit_unique(p) ==
    /\ pc[p] = "commit"
    /\ Len(txn[p]) = Len(plans_to_insert[p])
    /\ plans' = plans \o SelectSeq(txn[p], LAMBDA x :
                   ~ get_plan_by_date_and_category(plans, x.period, x.category_id))
    /\ txn' = [txn EXCEPT ![p] = <<>>]
    /\ pc' = [pc EXCEPT ![p] = "done"]
    /\ response' = [response EXCEPT ![p] =
           [NoResponse EXCEPT !.status = 200, !.kind = "inserted",
                              !.count = Len(plans_to_insert[p])]]
    /\ UNCHANGED << credits, payments, rows, index, errors, plans_to_insert,
                    before, calls, plan_date, next_month, report >>

bulk_insert_plans_commit(p) ==
    /\ pc[p] = "commit"
    /\ Len(txn[p]) = Len(plans_to_insert[p])
    /\ plans' = plans \o txn[p]
    /\ txn' = [txn EXCEPT ![p] = <<>>]
    /\ pc' = [pc EXCEPT ![p] = "done"]
    /\ response' = [response EXCEPT ![p] =
           [NoResponse EXCEPT !.status = 200, !.kind = "inserted",
                              !.count = Len(plans_to_insert[p])]]
    /\ UNCHANGED << credits, payments, rows, index, errors, plans_to_insert,
                    before, calls, plan_date, next_month, report >>

\* session.rollback(): the table after the transaction's rows are undone.
rollback_keeps_flushed(table, pending) == table \o pending

rollback(table, pending) == table

\* The store raises during the commit (at any flush, or at COMMIT itself):
\* "except Exception" rolls the session back and raises HTTPException(500),
\* which upload_plans re-raises.
bulk_insert_plans_fail(p) ==
    /\ pc[p] = "commit"
    /\ plans' = rollback(plans, txn[p])
    /\ txn' = [txn EXCEPT ![p] = <<>>]
    /\ pc' = [pc EXCEPT ![p] = "done"]
    /\ response' = [response EXCEPT ![p] =
           [NoResponse EXCEPT !.status = 500, !.kind = "store_failure"]]
    /\ UNCHANGED << credits, payments, rows, index, errors, plans_to_insert,
                    before, calls, plan_date, next_month, report >>

\* The response is sent and the request is over: the handler's locals are
\* gone, and the handler is free for the next request.
request_done(p) ==
    /\ pc[p] = "done"
    /\ pc' = [pc EXCEPT ![p] = "idle"]
    /\ rows' = [rows EXCEPT ![p] = <<>>]
    /\ index' = [index EXCEPT ![p] = 0]
    /\ errors' = [errors EXCEPT ![p] = <<>>]
    /\ plans_to_insert' = [plans_to_insert EXCEPT ![p] = <<>>]
    /\ response' = [response EXCEPT ![p] = NoResponse]
    /\ before' = [before EXCEPT ![p] = <<>>]
    /\ UNCHANGED << plans, credits, payments, txn, calls, plan_date,
                    next_month, report >>

ImportStep(p) ==
    \/ request_done(p)
    \/ upload_plans_row(p)
    \/ upload_plans_reject(p)
    \/ bulk_insert_plans_add(p)
    \/ bulk_insert_plans_flush(p)
    \/ bulk_insert_plans_commit(p)
    \/ bulk_insert_plans_fail(p)

Init ==
    /\ plans = <<>>
    /\ credits = {}
    /\ payments = {}
    /\ pc = [p \in Procs |-> "idle"]
    /\ rows = [p \in Procs |-> <<>>]
    /\ index = [p \in Procs |-> 0]
    /\ errors = [p \in Procs |-> <<>>]
    /\ plans_to_insert = [p \in Procs |-> <<>>]
    /\ txn = [p \in Procs |-> <<>>]
    /\ response = [p \in Procs |-> NoResponse]
    /\ before = [p \in Procs |-> <<>>]
    /\ calls = 0
    /\ plan_date = NoDate
    /\ next_month = NoDate
    /\ report = NoReport

\* Requests served one after the other: a request starts only when no other
\* is in flight.
StartSequential(p) ==
    /\ calls < MaxCalls
    /\ \A q \in Procs : pc[q] = "idle"
    /\ \E file \in Files(MaxRows) : upload_plans(p, file, MaxRows)

Next ==
    \E p \in Procs : StartSequential(p) \/ ImportStep(p)

Spec == Init /\ [][Next]_vars


\* Overlapping requests: one request for each handler, and the steps of the
\* two interleave at the awaits (one per row, one per store call).
StartConcurrent(p) ==
    /\ calls < Cardinality(Procs)
    /\ \E file \in Files(MaxConcRows) : upload_plans(p, file, MaxConcRows)

NextConc ==
    \E p \in Procs : StartConcurrent(p) \/ ImportStep(p)

SpecConc == Init /\ [][NextConc]_vars

\* ------------------------------------------------------------ the calendar
IsLeap(y) == (y % 4 = 0 /\ y % 100 # 0) \/ y % 400 = 0

DaysIn(y, m) ==
    IF m = 2 THEN (IF IsLeap(y) THEN 29 ELSE 28)
    ELSE IF m \in {4, 6, 9, 11} THEN 30 ELSE 31

\* datetime.strptime(date_str, "%d-%m-%Y") raises ValueError unless the
\* three numbers name a day of the calendar.
strptime_ok(date_str) ==
    /\ date_str.month \in 1..12
    /\ date_str.day \in 1..DaysIn(date_str.year, date_str.month)

\* ------------------------------------------------------------- the ledger
None == <<>>
Some(v) == << v >>

RECURSIVE SumOf(_, _)
SumOf(S, field) ==
    IF S = {} THEN 0
    ELSE LET x == CHOOSE y \in S : TRUE IN x[field] + SumOf(S \ {x}, field)

\* func.sum over no row is NULL: None.
sql_sum(S, field) == IF S = {} THEN None ELSE Some(SumOf(S, field))

\* "x or 0"
or_0(v) == IF v = None \/ v = Some(0) THEN 0 ELSE v[1]

get_sum_issued_loans(period, actual_date) ==
    sql_sum({ c \in credits : DateLE(period, c.issuance_date)
                              /\ DateLE(c.issuance_date, actual_date) }, "body")

get_payment_sum(period, actual_date) ==
    sql_sum({ c \in payments : DateLE(period, c.payment_date)
                               /\ DateLE(c.payment_date, actual_date) }, "sum")

get_month_sum_issued_loans(period) ==
    sql_sum({ c \in credits : DateLE(period, c.issuance_date)
                              /\ DateLT(c.issuance_date, incr_month(period)) }, "body")

get_month_sum_payments(period) ==
    sql_sum({ c \in payments : DateLE(period, c.payment_date)
                               /\ DateLT(c.payment_date, incr_month(period)) }, "sum")

get_amount_of_loans(period) ==
    Cardinality({ c \in credits : DateLE(period, c.issuance_date)
                                  /\ DateLT(c.issuance_date, incr_month(period)) })

get_amount_of_payments(period) ==
    Cardinality({ c \in payments : DateLE(period, c.payment_date)
                                   /\ DateLT(c.payment_date, incr_month(period)) })

get_month_plans(today_date) ==
    SelectSeq(plans, LAMBDA x : x.period = today_date)

\* str(round(a * 100 / d, 2)) + "%": the digits of the quotient rounded to
\* hundredths (ties to even), with the sign the quotient has.  a and d are
\* in cents, d # 0.  (Where both operands are Python ints the quotient is a
\* float and prints fewer digits, "0.0%"; the value is the same.)
Abs(n) == IF n < 0 THEN -n ELSE n

percent(a, d) ==
    LET h == Abs(RoundHalfEven(a * 10000, d))
    IN  [neg |-> (a < 0) # (d < 0), whole |-> h \div 100, frac |-> h % 100]

\* "x or 1" for a Decimal of cents: 1 is 100 cents.
or_1(v) == IF v = 0 THEN 100 ELSE v

\* ---------------------------------------------------- get_all_performance
MonthEntry(plan, category, actual) ==
    [period |-> plan.period, category |-> category, plan_sum |-> plan.sum,
     actual |-> actual, plan_completion_rate |-> percent(actual, or_1(plan.sum))]

\* The loop over the plans of the month: the entries, or the TypeError
\* raised when a sum that is None is multiplied by 100.
RECURSIVE plan_status(_, _, _)
plan_status(list, date_obj, acc) ==
    IF list = <<>> THEN [exc |-> "none", list |-> acc]
    ELSE LET plan == Head(list)
             category == get_category_name_by_id(plan.category_id)
             actual == IF category = <<"vydacha">>
                       THEN get_sum_issued_loans(plan.period, date_obj)
                       ELSE get_payment_sum(plan.period, date_obj)
         IN  IF category \notin {<<"vydacha">>, <<"zbir">>}
             THEN plan_status(Tail(list), date_obj, acc)
             ELSE IF actual = None THEN [exc |-> "TypeError", list |-> <<>>]
             ELSE plan_status(Tail(list), date_obj,
                              Append(acc, MonthEntry(plan, category, actual[1])))

\* The answer to a report request, with the argument it was asked with.
Report(op, arg, status, kind, body) ==
    [op |-> op, arg |-> arg, status |-> status, kind |-> kind, body |-> body]

get_all_performance(date_str) ==
    /\ IF ~ strptime_ok(date_str)
       THEN report' = Report("month", date_str, 400, "bad_date", <<>>)
       ELSE LET date_obj == Date(date_str.year, date_str.month, date_str.day)
                actual_month == Date(date_obj.year, date_obj.month, 1)
                month_plans == get_month_plans(actual_month)
            IN  IF month_plans = <<>>
                THEN report' = Report("month", date_str, 404, "no_plans", <<>>)
                ELSE LET st == plan_status(month_plans, date_obj, <<>>)
                     IN  IF st.exc # "none"
                         THEN report' = Report("month", date_str, 500, st.exc, <<>>)
                         ELSE report' = Report("month", date_str, 200, "ok", st.list)
    /\ UNCHANGED << plans, credits, payments, plan_date, next_month >>
    /\ UNCHANGED importVars

\* --------------------------------------------------- get_year_performance
\* The periods of the year's plans, ascending (order_by(Plan.period), then
\* grouped).
RECURSIVE SortDates(_)
SortDates(S) ==
    IF S = {} THEN <<>>
    ELSE LET m == CHOOSE x \in S : \A y \in S : DateLE(x, y)
         IN  << m >> \o SortDates(S \ {m})

get_year_plans(year) ==
    LET inYear == SelectSeq(plans, LAMBDA x :
                      DateLE(Date(year, 1, 1), x.period)
                      /\ DateLE(x.period, Date(year, 12, 1)))
        periods == SortDates({ inYear[k].period : k \in 1..Len(inYear) })
    IN  [k \in 1..Len(periods) |->
            [plan_date |-> periods[k],
             plans_list |-> SelectSeq(inYear, LAMBDA x : x.period = periods[k])]]

Flatten(groups) ==
    LET RECURSIVE F(_)
        F(k) == IF k > Len(groups) THEN <<>>
                ELSE [j \in 1..Len(groups[k].plans_list) |->
                        [plan_date |-> groups[k].plan_date,
                         plan |-> groups[k].plans_list[j]]] \o F(k + 1)
    IN  F(1)

\* The first pass: the year's totals, << issues, payments >>.
RECURSIVE year_totals(_, _)
year_totals(flat, acc) ==
    IF flat = <<>> THEN acc
    ELSE LET e == Head(flat)
         IN  IF e.plan.category_id = get_category_id_by_name(<<"vydacha">>)
             THEN year_totals(Tail(flat),
                      << acc[1] + or_0(get_month_sum_issued_loans(e.plan_date)),
                         acc[2] >>)
             ELSE year_totals(Tail(flat),
                      << acc[1],
                         acc[2] + or_0(get_month_sum_payments(e.plan_date)) >>)

MonthZero ==
    [issued_loans_count |-> 0, payments_count |-> 0,
     plan_sum_issued_loans |-> 0, plan_sum_payments |-> 0,
     sum_issued_loans |-> 0, sum_payments |-> 0]

\* The inner loop of the second pass over one month's plans.
RECURSIVE month_totals(_, _, _)
month_totals(d, list, acc) ==
    IF list = <<>> THEN acc
    ELSE LET plan == Head(list)
         IN  IF plan.category_id = get_category_id_by_name(<<"vydacha">>)
             THEN month_totals(d, Tail(list),
                    [acc EXCEPT
                       !.issued_loans_count = @ + get_amount_of_loans(d),
                       !.plan_sum_issued_loans = plan.sum,
                       !.sum_issued_loans = or_0(get_month_sum_issued_loans(d))])
             ELSE month_totals(d, Tail(list),
                    [acc EXCEPT
                       !.payments_count = @ + get_amount_of_payments(d),
                       !.plan_sum_payments = plan.sum,
                       !.sum_payments = or_0(get_month_sum_payments(d))])

\* The divisor the year report uses for a completion rate: the plan sum as
\* it is (no "or 1").
year_rate_divisor(plan_sum) == plan_sum

YearEntry(d, t, totals) ==
    [date |-> << d.month, d.year >>,
     issued_loans_count |-> t.issued_loans_count,
     plan_sum_issued_loans |-> t.plan_sum_issued_loans,
     sum_issued_loans |-> t.sum_issued_loans,
     plan_issued_completion_rate |->
         percent(t.sum_issued_loans, year_rate_divisor(t.plan_sum_issued_loans)),
     payments_count |-> t.payments_count,
     plan_sum_payments |-> t.plan_sum_payments,
     sum_payments |-> t.sum_payments,
     plan_payments_completion_rate |->
         percent(t.sum_payments, year_rate_divisor(t.plan_sum_payments)),
     monthly_issued_percent_of_year |->
         percent(t.sum_issued_loans, or_1(totals[1])),
     monthly_payment_percent_of_year |->
         percent(t.sum_payments, or_1(totals[2]))]

\* The second pass: the entries, or the ZeroDivisionError raised when a
\* completion rate divides by a plan sum that is 0.
RECURSIVE year_status(_, _, _)
year_status(groups, totals, acc) ==
    IF groups = <<>> THEN [exc |-> "none", list |-> acc]
    ELSE LET g == Head(groups)
             t == month_totals(g.plan_date, g.plans_list, MonthZero)
         IN  IF \/ year_rate_divisor(t.plan_sum_issued_loans) = 0
                \/ year_rate_divisor(t.plan_sum_payments) = 0
             THEN [exc |-> "ZeroDivisionError", list |-> <<>>]
             ELSE year_status(Tail(groups), totals,
                              Append(acc, YearEntry(g.plan_date, t, totals)))

get_year_performance(year) ==
    /\ LET groups == get_year_plans(year)
       IN  IF groups = <<>>
           THEN report' = Report("year", year, 404, "no_plans", <<>>)
           ELSE LET totals == year_totals(Flatten(groups), << 0, 0 >>)
                    st == year_status(groups, totals, <<>>)
                IN  IF st.exc # "none"
                    THEN report' = Report("year", year, 500, st.exc, <<>>)
                    ELSE report' = Report("year", year, 200, "ok", st.list)
    /\ UNCHANGED << plans, credits, payments, plan_date, next_month >>
    /\ UNCHANGED importVars

\* The reports are run on a store that imports and the ledger have filled.
Jan1 == Date(2024, 1, 1)

StoredPlans ==
    { Plan(Mar1, 10000, 3), Plan(Mar1, 8000, 4), Plan(Mar1, 0, 4),
      Plan(Jan1, 300, 3), Plan(Jan1, 0, 1) }

Credits ==
    { [id |-> 1, issuance_date |-> Date(2024, 3, 10), body |-> 6000],
      [id |-> 2, issuance_date |-> Date(2024, 1, 31), body |-> 5000] }

Payments ==
    { [id |-> 1, payment_date |-> Date(2024, 3, 20), sum |-> 8200],
      [id |-> 2, payment_date |-> Date(2024, 3, 1), sum |-> 5000] }

DateStrs ==
    { [day |-> 20, month |-> 3, year |-> 2024],
      [day |-> 1, month |-> 3, year |-> 2024],
      [day |-> 31, month |-> 1, year |-> 2024],
      [day |-> 30, month |-> 2, year |-> 2024] }

ReportYears == {2023, 2024}

InitPerf ==
    /\ plans \in SeqsUpTo(StoredPlans, MaxPlans)
    /\ credits \in SUBSET Credits
    /\ payments \in SUBSET Payments
    /\ pc = [p \in Procs |-> "idle"]
    /\ rows = [p \in Procs |-> <<>>]
    /\ index = [p \in Procs |-> 0]
    /\ errors = [p \in Procs |-> <<>>]
    /\ plans_to_insert = [p \in Procs |-> <<>>]
    /\ txn = [p \in Procs |-> <<>>]
    /\ response = [p \in Procs |-> NoResponse]
    /\ before = [p \in Procs |-> <<>>]
    /\ calls = 0
    /\ plan_date = NoDate
    /\ next_month = NoDate
    /\ report = NoReport

NextPerf ==
    \/ \E date_str \in DateStrs : get_all_performance(date_str)
    \/ \E year \in ReportYears : get_year_performance(year)

SpecPerf == InitPerf /\ [][NextPerf]_vars

\* ------------------------------------------------------- month arithmetic
Years == 2020..(2020 + NumYears - 1)

InitMonth ==
    /\ plans = <<>>
    /\ credits = {}
    /\ payments = {}
    /\ pc = [p \in Procs |-> "idle"]
    /\ rows = [p \in Procs |-> <<>>]
    /\ index = [p \in Procs |-> 0]
    /\ errors = [p \in Procs |-> <<>>]
    /\ plans_to_insert = [p \in Procs |-> <<>>]
    /\ txn = [p \in Procs |-> <<>>]
    /\ response = [p \in Procs |-> NoResponse]
    /\ before = [p \in Procs |-> <<>>]
    /\ calls = 0
    /\ plan_date \in { Date(y, m, 1) : y \in Years, m \in 1..12 }
    /\ next_month = NoDate
    /\ report = NoReport

\* A month query computes the exclusive upper bound of its range.
incr_month_call ==
    /\ next_month = NoDate
    /\ next_month' = incr_month(plan_date)
    /\ UNCHANGED << plans, credits, payments, plan_date, report >>
    /\ UNCHANGED importVars

NextMonth == incr_month_call

SpecMonth == InitMonth /\ [][NextMonth]_vars

\* ------------------------------------------------- the checks, as the text
\* of the specification states them (independently of validate_row)
IsCalendarDate(row) == IsDatetime(row.period) \/ IsDate(row.period)

\* The check numbered k fails on row (the checks before it having passed).
Fails(k, row, table) ==
    CASE k = 1 -> ~ IsCalendarDate(row)
      [] k = 2 -> row.period.day # 1
      [] k = 3 -> row.sum.kind = "nan"
      [] k = 4 -> row.sum.kind = "text"
      [] k = 5 -> \A d \in Dictionary : d.name # strip(row.category_name)
      [] k = 6 -> \E x \in { table[j] : j \in 1..Len(table) } :
                     /\ x.period = Date(row.period.year, row.period.month, 1)
                     /\ \E d \in Dictionary :
                          d.name = strip(row.category_name) /\ d.id = x.category_id

ErrorOfCheck ==
    << "date_format", "not_first_day", "sum_empty", "sum_invalid",
       "category_not_found", "plan_exists" >>

RECURSIVE FirstFailingFrom(_, _, _)
FirstFailingFrom(k, row, table) ==
    IF k > 6 THEN 0
    ELSE IF Fails(k, row, table) THEN k
    ELSE FirstFailingFrom(k + 1, row, table)

FirstFailing(row, table) == FirstFailingFrom(1, row, table)

\* The errors the first n rows of rs must have produced.
RECURSIVE ExpectedErrors(_, _, _)
ExpectedErrors(rs, n, table) ==
    IF n = 0 THEN <<>>
    ELSE LET k == FirstFailing(rs[n], table)
             sofar == ExpectedErrors(rs, n - 1, table)
         IN  IF k = 0 THEN sofar
             ELSE Append(sofar, [row |-> n, kind |-> ErrorOfCheck[k]])

AnyRowFails(rs, table) == \E n \in 1..Len(rs) : FirstFailing(rs[n], table) # 0

\* The handler of p went through the rows (the file itself was accepted).
Validated(r) == r.kind \in {"errors", "inserted", "store_failure"}

Completes(p) == pc[p] # "done" /\ pc'[p] = "done" /\ Validated(response'[p])

\* The Plan records a batch of passing rows stands for.
PlanOfRow(row) ==
    Plan(Date(row.period.year, row.period.month, row.period.day),
         quantize(row.sum.mills),
         (CHOOSE d \in Dictionary : d.name = strip(row.category_name)).id)

PlansOfRows(rs) == [n \in 1..Len(rs) |-> PlanOfRow(rs[n])]

Pairs(table) ==
    { [period |-> table[k].period, category_id |-> table[k].category_id] :
        k \in 1..Len(table) }

Count(table, pair) ==
    Cardinality({ k \in 1..Len(table) :
        table[k].period = pair.period /\ table[k].category_id = pair.category_id })

\* Row is a row for the pair: its period is that date and its trimmed
\* category name resolves to that category.
RowForPair(row, pair) ==
    /\ IsCalendarDate(row)
    /\ Date(row.period.year, row.period.month, row.period.day) = pair.period
    /\ \E d \in Dictionary :
         d.name = strip(row.category_name) /\ d.id = pair.category_id

\* ------------------------------------------------------------------ claims
\* C1 as stated: a batch with a failing row leaves the plans table as it
\* was, and a batch without one adds exactly len(rows) Plan records.
C1_AllOrNothing_AsStated ==
    [][\A p \in Procs : Completes(p) =>
          IF AnyRowFails(rows[p], before[p])
          THEN plans' = plans
          ELSE plans' = plans \o PlansOfRows(rows[p])]_vars

\* C1 amended: a batch with a failing row leaves the plans table as it was;
\* a batch without one adds exactly len(rows) Plan records when the commit
\* succeeds, and none when the store fails during the commit.
C1_AllOrNothing ==
    [][\A p \in Procs : Completes(p) =>
          IF AnyRowFails(rows[p], before[p])
          THEN plans' = plans /\ response'[p].kind = "errors"
          ELSE \/ /\ response'[p].kind = "inserted"
                  /\ plans' = plans \o PlansOfRows(rows[p])
               \/ /\ response'[p].kind = "store_failure"
                  /\ plans' = plans]_vars

C1_Witness ==
    \E q \in Procs :
        /\ pc[q] = "done" /\ response[q].kind = "errors"
        /\ Len(plans_to_insert[q]) >= 1
        /\ Len(before[q]) >= 1
        /\ plans = before[q]

\* C2 as stated: under sequential imports the plans table never holds two
\* Plans with the same (period, category id).
C2_Uniqueness ==
    \A i, j \in 1..Len(plans) :
        i # j => ~ ( /\ plans[i].period = plans[j].period
                     /\ plans[i].category_id = plans[j].category_id )

\* C3 as stated: a request whose batch has a row for a pair that already
\* has a committed Plan is rejected, that row's error is "already exists",
\* and no Plan is added for the pair.
C3_SecondImportRejected_AsStated ==
    \A p \in Procs : pc[p] = "done" /\ Validated(response[p]) =>
        \A n \in 1..Len(rows[p]) : \A pair \in Pairs(before[p]) :
            RowForPair(rows[p][n], pair) =>
                /\ response[p].kind = "errors"
                /\ \E e \in 1..Len(response[p].errors) :
                     response[p].errors[e] = [row |-> n, kind |-> "plan_exists"]
                /\ Count(plans, pair) = Count(before[p], pair)

\* C3 amended: such a request is rejected and adds no Plan for the pair;
\* the row's error is "already exists" when its sum is present and parses,
\* and otherwise the error of its sum.
C3_SecondImportRejected ==
    \A p \in Procs : pc[p] = "done" /\ Validated(response[p]) =>
        \A n \in 1..Len(rows[p]) : \A pair \in Pairs(before[p]) :
            RowForPair(rows[p][n], pair) =>
                /\ response[p].kind = "errors"
                /\ \E e \in 1..Len(response[p].errors) :
                     response[p].errors[e] =
                        [row |-> n,
                         kind |-> IF rows[p][n].sum.kind = "nan" THEN "sum_empty"
                                  ELSE IF rows[p][n].sum.kind = "text"
                                  THEN "sum_invalid" ELSE "plan_exists"]
                /\ Count(plans, pair) = Count(before[p], pair)

C3_Witness ==
    \E p \in Procs : \E n \in 1..Len(rows[p]) : \E pair \in Pairs(before[p]) :
        /\ pc[p] = "done" /\ response[p].kind = "errors"
        /\ RowForPair(rows[p][n], pair)
        /\ rows[p][n].sum.kind = "num"
        /\ \E e \in 1..Len(response[p].errors) :
             response[p].errors[e] = [row |-> n, kind |-> "plan_exists"]
        /\ Count(plans, pair) = 1

\* C4: when the store fails during the commit, the rows already flushed are
\* rolled back, none of the batch is in the plans table, and the request is
\* answered with the store failure (status 500), not with a success.
C4_AtomicCommit ==
    [][\A p \in Procs :
          pc[p] = "commit" /\ pc'[p] = "done" /\ response'[p].kind # "inserted" =>
              /\ plans' = plans
              /\ txn'[p] = <<>>
              /\ response'[p].status = 500
              /\ response'[p].kind = "store_failure"]_vars

C4_Witness ==
    \E p \in Procs :
        /\ pc[p] = "done" /\ response[p].kind = "store_failure"
        /\ Len(plans_to_insert[p]) >= 2
        /\ plans = before[p]
        /\ txn[p] = <<>>

\* C5: imports are not serialized: whenever two overlapping requests were
\* both answered with success and both carried a plan for the same pair,
\* both plans are in the table (two Plans for one pair).
C5_ConcurrentDuplicates ==
    \A p, q \in Procs :
        /\ p # q
        /\ response[p].kind = "inserted"
        /\ response[q].kind = "inserted"
        => \A pair \in Pairs(plans_to_insert[p]) \cap Pairs(plans_to_insert[q]) :
               Count(plans, pair) >= 2

C5_Witness ==
    \E p, q \in Procs : \E pair \in Pairs(plans) :
        /\ p # q
        /\ response[p].kind = "inserted" /\ response[q].kind = "inserted"
        /\ before[p] = <<>> /\ before[q] = <<>>
        /\ pair \in Pairs(plans_to_insert[p]) \cap Pairs(plans_to_insert[q])
        /\ Count(plans, pair) = 2

IssuanceId == get_category_id_by_name(<<"vydacha">>)
CollectionId == get_category_id_by_name(<<"zbir">>)

\* The sum of the ledger records of the plan's category dated in
\* [plan.period, date_obj], 0 when there is none.
ActualOf(plan, date_obj) ==
    IF plan.category_id = IssuanceId
    THEN SumOf({ c \in credits : DateLE(plan.period, c.issuance_date)
                                 /\ DateLE(c.issuance_date, date_obj) }, "body")
    ELSE SumOf({ c \in payments : DateLE(plan.period, c.payment_date)
                                  /\ DateLE(c.payment_date, date_obj) }, "sum")

\* C7 as stated: for a month that has plans, the month report succeeds, and
\* every issuance or collection plan gets the rate actual * 100 / plan.sum
\* (plan.sum taken as 1 when it is 0), actual being the sum of the ledger
\* records dated in [period, target date], 0 when there is none.
C7_MonthSafeDivision ==
    report.op = "month" /\ strptime_ok(report.arg) =>
        LET date_obj == Date(report.arg.year, report.arg.month, report.arg.day)
            listed == SelectSeq(plans, LAMBDA x :
                          /\ x.period = Date(date_obj.year, date_obj.month, 1)
                          /\ x.category_id \in {IssuanceId, CollectionId})
        IN  listed # <<>> =>
              /\ report.status = 200
              /\ Len(report.body) = Len(listed)
              /\ \A k \in 1..Len(listed) :
                   report.body[k].plan_completion_rate =
                       percent(ActualOf(listed[k], date_obj),
                               IF listed[k].sum = 0 THEN 100 ELSE listed[k].sum)

\* C8 as stated: for a year that has plans (none with a sum of 0), the year
\* report succeeds and every month that has plans gets both rates: actual *
\* 100 / target for a category the month has a plan for, and the actual the
\* report shows * 100 / 1 for a category the month has no plan for.
C8_YearRates ==
    report.op = "year" =>
        LET groups == get_year_plans(report.arg)
            Targets(g, cats) ==
                SelectSeq(g.plans_list, LAMBDA x : x.category_id \in cats)
            Issuance(g) == Targets(g, {IssuanceId})
            Collection(g) == Targets(g, {d.id : d \in Dictionary} \ {IssuanceId})
            NonZero(g) == \A j \in 1..Len(g.plans_list) : g.plans_list[j].sum # 0
        IN  groups # <<>> /\ (\A k \in 1..Len(groups) : NonZero(groups[k])) =>
              /\ report.status = 200
              /\ Len(report.body) = Len(groups)
              /\ \A k \in 1..Len(groups) :
                   LET g == groups[k]
                       e == report.body[k]
                   IN  /\ e.plan_issued_completion_rate =
                            IF Issuance(g) # <<>>
                            THEN percent(or_0(get_month_sum_issued_loans(g.plan_date)),
                                         Issuance(g)[Len(Issuance(g))].sum)
                            ELSE percent(e.sum_issued_loans, 100)
                       /\ e.plan_payments_completion_rate =
                            IF Collection(g) # <<>>
                            THEN percent(or_0(get_month_sum_payments(g.plan_date)),
                                         Collection(g)[Len(Collection(g))].sum)
                            ELSE percent(e.sum_payments, 100)

CalendarDates ==
    { Date(y, m, d) : y \in 2020..(2020 + NumYears), m \in 1..12,
                      d \in 1..31 }

\* C9: for the first day of a month, incr_month is the first day of the
\* next month (January of the next year after December), and the dates d
\* with period <= d < incr_month(period) are exactly the days of that month.
C9_IncrMonth ==
    next_month # NoDate =>
        /\ next_month.day = 1
        /\ plan_date.month <= 11 =>
              /\ next_month.year = plan_date.year
              /\ next_month.month = plan_date.month + 1
        /\ plan_date.month = 12 =>
              /\ next_month.year = plan_date.year + 1
              /\ next_month.month = 1
        /\ \A d \in CalendarDates :
              d.day <= DaysIn(d.year, d.month) =>
                 ( (DateLE(plan_date, d) /\ DateLT(d, next_month))
                   <=> (d.year = plan_date.year /\ d.month = plan_date.month) )

C9_Witness ==
    /\ plan_date.month = 12
    /\ plan_date.day = 1
    /\ next_month = Date(plan_date.year + 1, 1, 1)

\* C10 as stated: every committed Plan has a sum greater than or equal to 0.
C10_NonNegativeSum ==
    \A k \in 1..Len(plans) : plans[k].sum >= 0

============================================================================
